---- MODULE Spec2Model ----
(***************************************************************************)
(* Ed25519 signature layer of ed25519-compact (src/src/ed25519.rs):        *)
(* KeyPair::from_seed, SecretKey::sign, PublicKey::verify and the          *)
(* canonicality test check_lt_l.  Byte arrays are sequences of 0..255;     *)
(* At(s, i) is the Rust s[i] (0-based).  The digest, the scalar arithmetic *)
(* modulo the group order and the group itself live outside ed25519.rs and *)
(* are modelled from their contracts (spec.md 4.1-4.3).                    *)
(***************************************************************************)
EXTENDS Integers, Sequences, FiniteSets, TLC

\* ------------------------------------------------------------ byte helpers

At(s, i) == s[i + 1]

\* s[a..b] of Rust (b exclusive)
Slice(s, a, b) == [i \in 1..(b - a) |-> s[a + i]]

Zeros(n) == [i \in 1..n |-> 0]

RECURSIVE BitAndRec(_, _, _)
BitAndRec(a, b, k) ==
    IF k = 0 THEN 0
    ELSE (a % 2) * (b % 2) + 2 * BitAndRec(a \div 2, b \div 2, k - 1)

\* u8 & u8, u8 | u8, u8 ^ u8
BitAnd(a, b) == BitAndRec(a, b, 8)
BitOr(a, b)  == a + b - BitAnd(a, b)
BitXor(a, b) == a + b - 2 * BitAnd(a, b)

\* (x as i32) >> 8 : arithmetic shift, rounds towards minus infinity
Shr8(x) == IF x >= 0 THEN x \div 256 ELSE -(((-x) + 255) \div 256)

\* (x as u8) of an i32
AsU8(x) == IF x >= 0 THEN x % 256 ELSE (256 - ((-x) % 256)) % 256

\* Rust computes a value where it is bound: x is computed, then e
Eager(x, e) == IF x = x THEN e ELSE e

\* s.iter().fold(0, |acc, x| acc | x) over the bytes lo..hi (1-based); the
\* range is folded in two halves
RECURSIVE FoldOrRec(_, _, _)
FoldOrRec(s, lo, hi) ==
    IF lo > hi THEN 0
    ELSE IF lo = hi THEN BitOr(0, s[lo])
    ELSE LET mid == (lo + hi) \div 2
         IN  BitOr(FoldOrRec(s, lo, mid), FoldOrRec(s, mid + 1, hi))

\* (a fold that looks at the first byte only)
FoldOrFirstByte(s) == s[1]

FoldOr(s) == Eager(s, FoldOrRec(s, 1, Len(s)))

\* ------------------------------------------- scalar arithmetic modulo L
\* Byte sequences are little-endian natural numbers.  The arithmetic is
\* done on vectors of 12-bit limbs; a vector is made concrete (Vec) once
\* it is built, and sums are split in halves.

Vec(f) == f \o << >>

\* The group order 2^252 + 27742317777372353535851937790883648493,
\* little-endian, 32 bytes.
GroupOrder ==
    << 237, 211, 245, 92, 26, 99, 18, 88, 214, 156, 247, 162, 222, 249, 222, 20,
       0, 0, 0, 0, 0, 0, 0, 0, 0, 0, 0, 0, 0, 0, 0, 16 >>

One32 == [i \in 1..32 |-> IF i = 1 THEN 1 ELSE 0]

LimbBase == 4096
\* limbs of a number below 2^276, of a number below 2^540, of 2^252
NumLimbs == 23
WideLimbs == 45
LowLimbs == 21

\* byte i (0-based) of x, zero beyond its end
ByteAt(x, i) == IF i < Len(x) THEN x[i + 1] ELSE 0

\* limb j (0-based) of the byte sequence x: bits 12j .. 12j+11
LimbOf(x, j) ==
    LET m == 3 * (j \div 2)
    IN  IF j % 2 = 0
        THEN ByteAt(x, m) + 256 * (ByteAt(x, m + 1) % 16)
        ELSE (ByteAt(x, m + 1) \div 16) + 16 * ByteAt(x, m + 2)

\* (an operator below takes its argument's length first: the argument is
\* computed before the operator's own work starts)
ToLimbs(x, n) ==
    IF Len(x) >= 0 THEN Vec([j \in 1..n |-> LimbOf(x, j - 1)]) ELSE << >>

\* the low 32 bytes of a limb vector
FromLimbs(v) ==
    IF Len(v) < NumLimbs THEN << >>
    ELSE Vec([i \in 1..32 |->
        LET m == 2 * ((i - 1) \div 3) + 1
            r == (i - 1) % 3
        IN  IF r = 0 THEN v[m] % 256
            ELSE IF r = 1 THEN (v[m] \div 256) + 16 * (v[m + 1] % 16)
            ELSE v[m + 1] \div 16])

\* Carries (and borrows) are moved up one limb at a time until every limb
\* is a digit; the vector is a number modulo LimbBase^Len(v).
RECURSIVE Carry(_)
Carry(v) ==
    IF \A i \in 1..Len(v) : v[i] >= 0 /\ v[i] < LimbBase THEN v
    ELSE Carry(Vec([i \in 1..Len(v) |->
             (v[i] % LimbBase) + (IF i = 1 THEN 0 ELSE v[i - 1] \div LimbBase)]))

\* sum of a[i] * b[k + 1 - i] for i in lo..hi: the limb k of a product
RECURSIVE ConvAt(_, _, _, _, _)
ConvAt(a, b, k, lo, hi) ==
    IF lo > hi THEN 0
    ELSE IF lo = hi THEN a[lo] * b[k + 1 - lo]
    ELSE LET mid == (lo + hi) \div 2
         IN  ConvAt(a, b, k, lo, mid) + ConvAt(a, b, k, mid + 1, hi)

Max(m, n) == IF m >= n THEN m ELSE n
Min(m, n) == IF m <= n THEN m ELSE n

OrderLimbs == ToLimbs(GroupOrder, NumLimbs)

\* L - 2^252
OrderLow == Vec([i \in 1..NumLimbs |-> IF i <= LowLimbs THEN OrderLimbs[i] ELSE 0])

\* t mod L for a limb vector t below 2^270.  With t = q*2^252 + lo and
\* L = 2^252 + c, t = lo - q*c modulo L; q*c is below 2^144, so that
\* lo - q*c lies between -L and 2^252 and one addition of L makes it the
\* residue.
ModOrder(t) ==
    IF Len(t) # NumLimbs THEN << >>
    ELSE LET q == t[LowLimbs + 1] + LimbBase * t[LowLimbs + 2]
             d == Carry(Vec([i \in 1..NumLimbs |->
                      (IF i <= LowLimbs THEN t[i] ELSE 0) - q * OrderLow[i]]))
         IN  IF d[NumLimbs] = 0 THEN d
             ELSE Carry(Vec([i \in 1..NumLimbs |-> d[i] + OrderLimbs[i]]))

\* PowTable[m] = 2^(12 * (LowLimbs + m - 1)) mod L, for the limbs above 2^252
RECURSIVE PowTableRec(_)
PowTableRec(m) ==
    IF m = 1 THEN << Vec([i \in 1..NumLimbs |-> IF i = LowLimbs + 1 THEN 1 ELSE 0]) >>
    ELSE LET prev == PowTableRec(m - 1)
         IN  Append(prev, ModOrder(Vec([i \in 1..NumLimbs |->
                              IF i = 1 THEN 0 ELSE prev[m - 1][i - 1]])))

PowTable == PowTableRec(WideLimbs - LowLimbs)

\* sum of x[k] * PowTable[k - LowLimbs][j] for k in lo..hi
RECURSIVE FoldAt(_, _, _, _)
FoldAt(x, j, lo, hi) ==
    IF lo = hi THEN x[lo] * PowTable[lo - LowLimbs][j]
    ELSE LET mid == (lo + hi) \div 2
         IN  FoldAt(x, j, lo, mid) + FoldAt(x, j, mid + 1, hi)

\* x mod L for a vector x of WideLimbs digits
ModOrderWide(x) ==
    IF Len(x) # WideLimbs THEN << >>
    ELSE LET f == Carry(Vec([j \in 1..NumLimbs |->
                     (IF j <= LowLimbs THEN x[j] ELSE 0)
                     + FoldAt(x, j, LowLimbs + 1, WideLimbs)]))
         IN  Eager(f, ModOrder(f))

\* (a*b + c) mod L as 32 bytes, for byte sequences a, b, c of 32 bytes
MulAddMod(a, b, c) ==
    LET al == ToLimbs(a, NumLimbs)
        bl == ToLimbs(b, NumLimbs)
        cl == ToLimbs(c, NumLimbs)
    IN  IF Len(al) + Len(bl) + Len(cl) # 3 * NumLimbs THEN << >>
        ELSE LET p == Carry(Vec([k \in 1..WideLimbs |->
                     ConvAt(al, bl, k, Max(1, k + 1 - NumLimbs), Min(NumLimbs, k))
                     + (IF k <= NumLimbs THEN cl[k] ELSE 0)]))
                 r == ModOrderWide(p)
             IN  Eager(p, Eager(r, FromLimbs(r)))

\* x + y and x - y (x >= y), for byte sequences below 2^255
BigAdd(x, y) ==
    LET xl == ToLimbs(x, NumLimbs)
        yl == ToLimbs(y, NumLimbs)
    IN  IF Len(xl) + Len(yl) # 2 * NumLimbs THEN << >>
        ELSE FromLimbs(Carry(Vec([i \in 1..NumLimbs |-> xl[i] + yl[i]])))

BigSub(x, y) ==
    LET xl == ToLimbs(x, NumLimbs)
        yl == ToLimbs(y, NumLimbs)
    IN  IF Len(xl) + Len(yl) # 2 * NumLimbs THEN << >>
        ELSE FromLimbs(Carry(Vec([i \in 1..NumLimbs |-> xl[i] - yl[i]])))

\* x >= y for two 32-byte sequences
BigGe(x, y) ==
    ~\E i \in 1..32 : x[i] < y[i] /\ \A j \in (i + 1)..32 : x[j] = y[j]

\* sc_reduce: a 64-byte little-endian integer modulo L, in the first 32 bytes
sc_reduce(wide) ==
    LET x == ToLimbs(wide, WideLimbs)
        r == ModOrderWide(x)
    IN  Eager(x, Eager(r, FromLimbs(r)))

\* sc_muladd: (a*b + c) mod L
sc_muladd(a, b, c) == MulAddMod(a, b, c)

\* ------------------------------------------------------------ the digest
\* sha512::Hash: a deterministic function of the concatenation of the bytes
\* fed to it, 64 bytes long.  Two position-weighted sums absorb the input,
\* and multiples of them modulo two primes are spread over the output.

HashMod1 == 65521
HashMod2 == 65519

RECURSIVE Absorb1(_, _, _)
Absorb1(input, lo, hi) ==
    IF lo > hi THEN 0
    ELSE IF lo = hi THEN ((input[lo] + 1) * ((lo * lo * 31 + lo * 7 + 3) % HashMod1)) % HashMod1
    ELSE LET mid == (lo + hi) \div 2
         IN  (Absorb1(input, lo, mid) + Absorb1(input, mid + 1, hi)) % HashMod1

RECURSIVE Absorb2(_, _, _)
Absorb2(input, lo, hi) ==
    IF lo > hi THEN 0
    ELSE IF lo = hi THEN ((input[lo] + 3) * ((lo * lo * lo + lo * 11 + 5) % HashMod2)) % HashMod2
    ELSE LET mid == (lo + hi) \div 2
         IN  (Absorb2(input, lo, mid) + Absorb2(input, mid + 1, hi)) % HashMod2

Hash(input) ==
    LET n  == Len(Vec(input))
        h1 == ((Absorb1(input, 1, n) + n + 1) % HashMod1) + 1
        h2 == ((Absorb2(input, 1, n) + 7 * n + 2) % HashMod2) + 1
    IN  IF h1 + h2 < 0 THEN << >> ELSE
        Vec([i \in 1..64 |->
            ( (((h1 * ((i * i * 37 + i * 101 + 13) % 32749)) % HashMod1) \div 16)
              + (((h2 * ((i * i * 53 + i * 211 + 29) % 32719)) % HashMod2) \div 8) ) % 256])

\* ------------------------------------------------------------- the group
\* The subgroup generated by the base point B, of order L.  An element k*B
\* is represented by k (32 bytes, little-endian, below L); its encoding is
\* k + 1, so that the neutral element encodes as 1, 0, ..., 0; the all-zero
\* string and the strings above L encode no element of the subgroup.

Option_Some(v) == [some |-> TRUE, val |-> v]
Option_None == [some |-> FALSE, val |-> << >>]

\* ge_scalarmult_base: scalar * B
ge_scalarmult_base(scalar) ==
    LET r == ModOrder(ToLimbs(scalar, NumLimbs))
    IN  Eager(r, FromLimbs(r))

\* GeP3::to_bytes / GeP2::to_bytes: the canonical encoding
to_bytes(e) == BigAdd(e, One32)

\* is_identity: the encoding of the neutral element
is_identity(bytes) == bytes = One32

\* GeP3::from_bytes_negate_vartime: the negation of the encoded element
from_bytes_negate_vartime(bytes) ==
    IF bytes = Zeros(32) \/ ~BigGe(GroupOrder, bytes) THEN Option_None
    ELSE LET e == BigSub(bytes, One32)
         IN  Option_Some(IF e = Zeros(32) THEN e ELSE BigSub(GroupOrder, e))

\* GeP2::double_scalarmult_vartime(a, A, b): a*A + b*B
double_scalarmult_vartime(a, A, b) == MulAddMod(a, A, b)

\* ------------------------------------------------------- ed25519.rs
\* Error (error.rs) and the outcomes of a call
Ok == "Ok"
NoncanonicalSignature == "NoncanonicalSignature"
WeakPublicKey == "WeakPublicKey"
InvalidPublicKey == "InvalidPublicKey"
SignatureMismatch == "SignatureMismatch"

\* Build configuration: the "self-verify" feature (or a wasm target)
VARIABLE self_verify

\* static L: [u8; 32]
L ==
    << 16, 0, 0, 0, 0, 0, 0, 0, 0, 0, 0, 0, 0, 0, 0, 0,
       20, 222, 249, 222, 162, 247, 156, 214, 88, 18, 99, 26, 92, 245, 211, 237 >>

\* fn check_lt_l(s: &[u8]) -> bool : one iteration of the loop, from the
\* <<c, n>> before it to the <<c, n>> after it
check_lt_l_step(s, i, cn) ==
    LET c == cn[1]
        n == cn[2]
    IN  << BitOr(c, BitAnd(AsU8(Shr8(At(s, i) - At(L, i))), n)),
           BitAnd(n, AsU8(Shr8(BitXor(At(s, i), At(L, i)) - 1))) >>

\* the iterations for i = hi down to i = lo, the upper half of them first
RECURSIVE check_lt_l_loop(_, _, _, _)
check_lt_l_loop(s, hi, lo, cn) ==
    IF hi = lo THEN check_lt_l_step(s, hi, cn)
    ELSE LET mid == (hi + lo + 1) \div 2
             upper == check_lt_l_loop(s, hi, mid, cn)
         IN  Eager(upper, check_lt_l_loop(s, mid - 1, lo, upper))

check_lt_l(s) == Eager(s, check_lt_l_loop(s, 31, 0, <<0, 1>>)[1] = 0)

\* x.iter().zip(y.iter()).fold(0, |acc, (x, y)| acc | (x ^ y)) over the
\* pairs lo..hi (1-based); zip stops at the shorter of the two, and the
\* range is folded in two halves
RECURSIVE ZipFoldXorRec(_, _, _, _)
ZipFoldXorRec(xs, ys, lo, hi) ==
    IF lo > hi THEN 0
    ELSE IF lo = hi THEN BitOr(0, BitXor(xs[lo], ys[lo]))
    ELSE LET mid == (lo + hi) \div 2
         IN  BitOr(ZipFoldXorRec(xs, ys, lo, mid), ZipFoldXorRec(xs, ys, mid + 1, hi))

ZipFoldXor(xs, ys) ==
    Eager(xs, Eager(ys, ZipFoldXorRec(xs, ys, 1, Min(Len(xs), Len(ys)))))

\* (a challenge that leaves the message out)
verify_hash_without_message(pk, message, signature) ==
    sc_reduce(Hash(Slice(signature, 0, 32) \o pk))

\* PublicKey::verify: the hasher fed with signature[0..32], the key and the
\* message, then sc_reduce(&mut hash)
verify_hash(pk, message, signature) ==
    sc_reduce(Hash(Slice(signature, 0, 32) \o pk \o message))

\* (a verification without the all-zero test of the key)
verify_without_zero_test(pk, message, signature) ==
    LET s == Slice(signature, 32, 64)
    IN  IF check_lt_l(s) THEN NoncanonicalSignature
        ELSE IF is_identity(pk) THEN WeakPublicKey
        ELSE LET a == from_bytes_negate_vartime(pk)
             IN  IF ~a.some THEN InvalidPublicKey
                 ELSE LET hash == verify_hash(pk, message, signature)
                          r == double_scalarmult_vartime(hash, a.val, s)
                      IN  Eager(hash, Eager(r,
                          IF ZipFoldXor(to_bytes(r), signature) # 0
                          THEN SignatureMismatch
                          ELSE Ok))

\* PublicKey::verify(&self, message, signature)
verify(pk, message, signature) ==
    LET s == Slice(signature, 32, 64)
    IN  IF check_lt_l(s) THEN NoncanonicalSignature
        ELSE IF is_identity(pk) \/ FoldOr(pk) = 0 THEN WeakPublicKey
        ELSE LET a == from_bytes_negate_vartime(pk)
             IN  IF ~a.some THEN InvalidPublicKey
                 ELSE LET hash == verify_hash(pk, message, signature)
                          r == double_scalarmult_vartime(hash, a.val, s)
                      IN  Eager(hash, Eager(r,
                          IF ZipFoldXor(to_bytes(r), signature) # 0
                          THEN SignatureMismatch
                          ELSE Ok))

\* SecretKey::public_key(&self)
public_key(sk) == Slice(sk, 32, 64)

\* hash_output[0] &= 248; hash_output[31] &= 63; hash_output[31] |= 64
ClampBytes(hash_output) ==
    [i \in 1..Len(hash_output) |->
        IF i = 1 THEN BitAnd(hash_output[i], 248)
        ELSE IF i = 32 THEN BitOr(BitAnd(hash_output[i], 63), 64)
        ELSE hash_output[i]]

\* (an az that is not clamped)
sign_az_unclamped(sk) == Hash(Slice(sk, 0, 32))

\* SecretKey::sign: let az = { ... }
sign_az(sk) == ClampBytes(Hash(Slice(sk, 0, 32)))

\* (a nonce that ignores the noise)
sign_nonce_without_noise(az, message, noise) ==
    sc_reduce(Hash(Slice(az, 32, 64) \o message))

\* SecretKey::sign: let nonce = { ... } (the reduced scalar, 32 bytes)
sign_nonce(az, message, noise) ==
    sc_reduce(Hash((IF noise.some THEN noise.val \o az ELSE Slice(az, 32, 64)) \o message))

\* SecretKey::sign up to `let signature = Signature(signature)`
sign_signature(sk, message, noise) ==
    LET publicKey == Slice(sk, 32, 64)
        az == sign_az(sk)
        nonce == sign_nonce(az, message, noise)
        r == ge_scalarmult_base(nonce)
        sig0 == to_bytes(r) \o publicKey
        hram == sc_reduce(Hash(sig0 \o message))
    IN  Eager(az, Eager(nonce, Eager(r, Eager(sig0, Eager(hram,
        Slice(sig0, 0, 32) \o sc_muladd(hram, Slice(az, 0, 32), nonce))))))

Panic == << >>

\* (a sign without the self-verification block)
sign_without_self_verify(sk, message, noise) == sign_signature(sk, message, noise)

\* SecretKey::sign(&self, message, noise): the signature, or Panic when the
\* self-verification block is compiled in and its expect() fails
sign(sk, message, noise) ==
    LET signature == sign_signature(sk, message, noise)
    IN  Eager(signature,
        IF self_verify /\ verify(Slice(sk, 32, 64), message, signature) # Ok
        THEN Panic
        ELSE signature)

\* (a secret scalar that is not clamped)
from_seed_secret_unclamped(seed) == Hash(seed)

\* KeyPair::from_seed: let mut secret = { ... }
from_seed_secret(seed) == ClampBytes(Hash(seed))

\* KeyPair::from_seed(seed): the key pair, or Panic for the all-zero seed
from_seed(seed) ==
    IF FoldOr(seed) = 0 THEN [pk |-> Panic, sk |-> Panic]
    ELSE LET secret == from_seed_secret(seed)
             a == ge_scalarmult_base(Slice(secret, 0, 32))
             publicKey == to_bytes(a)
         IN  Eager(secret, Eager(a, [pk |-> publicKey, sk |-> seed \o publicKey]))

\* ---------------------------------------------------------- the client
\* One session of a caller: derive a key pair from a seed, sign a message
\* with a secret key (the derived one, or one built with SecretKey::new
\* whose public half does not match), then verify some (key, message,
\* signature) triple, genuine or tampered with.

VARIABLES pc, seed, kp, sk, msg, noise, sig, vpk, vmsg, vsig, vres

vars == <<self_verify, pc, seed, kp, sk, msg, noise, sig, vpk, vmsg, vsig, vres>>

MaxSeed == 2
MaxMsgLen == 2

\* Seed::new: the all-zero seed (k = 0) and seeds with one non-zero byte,
\* the last byte for odd k and the first for even k
SeedOf(k) ==
    [i \in 1..32 |-> IF k % 2 = 1 /\ i = 32 THEN k
                     ELSE IF k % 2 = 0 /\ i = 1 THEN k ELSE 0]

Seeds == {SeedOf(k) : k \in 0..MaxSeed}

\* "test", repeated
Text == <<116, 101, 115, 116>>

Messages == {[i \in 1..n |-> Text[((i - 1) % 4) + 1]] : n \in 0..MaxMsgLen}

\* Noise::new
NoiseOpts == {Option_None, Option_Some([i \in 1..16 |-> 160 + i])}

\* The byte string with bit b (0-based, little-endian) flipped
FlipBit(s, b) ==
    [i \in 1..Len(s) |->
        IF i = (b \div 8) + 1
        THEN BitXor(s[i], 2 ^ (b % 8))
        ELSE s[i]]

\* Bits of a 32-byte string that get flipped: the lowest, bit 252 and the highest
FlipBits == {0, 252, 255}

Ones32 == [i \in 1..32 |-> 255]

\* SecretKey::new: the derived key, and keys with another public half
SignKeys(k) ==
    { k.sk,
      Slice(k.sk, 0, 32) \o Zeros(32),
      Slice(k.sk, 0, 32) \o FlipBit(k.pk, 0) }

\* Signature::new: S halves put in place of a genuine one
ForgedScalars(s) ==
    { BigAdd(s, GroupOrder), GroupOrder, BigAdd(GroupOrder, One32), Ones32,
      L, BigSub(L, One32) }

\* PublicKey::new: keys put in place of the genuine one
ForgedKeys == { Zeros(32), One32, Ones32 }

\* What the caller hands to verify once sig is a signature of msg under kp
VerifyInputs ==
    LET R == Slice(sig, 0, 32)
        S == Slice(sig, 32, 64)
    IN  {[pk |-> kp.pk, m |-> m, sg |-> sig] : m \in Messages}
        \cup {[pk |-> kp.pk, m |-> msg, sg |-> FlipBit(R, b) \o S] : b \in FlipBits}
        \cup {[pk |-> kp.pk, m |-> msg, sg |-> R \o FlipBit(S, b)] : b \in FlipBits}
        \cup {[pk |-> FlipBit(kp.pk, b), m |-> msg, sg |-> sig] : b \in FlipBits}
        \cup {[pk |-> kp.pk, m |-> msg, sg |-> R \o s] : s \in ForgedScalars(S)}
        \cup {[pk |-> k, m |-> msg, sg |-> R \o s] : k \in ForgedKeys, s \in {S, Ones32}}

Empty == << >>

Init ==
    /\ self_verify \in BOOLEAN
    /\ pc = "start"
    /\ seed = Empty
    /\ kp = [pk |-> Empty, sk |-> Empty]
    /\ sk = Empty
    /\ msg = Empty
    /\ noise = Option_None
    /\ sig = Empty
    /\ vpk = Empty
    /\ vmsg = Empty
    /\ vsig = Empty
    /\ vres = ""

\* KeyPair::from_seed(Seed::new(s))
FromSeed ==
    /\ pc = "start"
    /\ \E s \in Seeds :
         LET k == from_seed(s)
         IN  /\ seed' = s
             /\ kp' = k
             /\ pc' = IF k.sk = Panic THEN "seed_panicked" ELSE "derived"
    /\ UNCHANGED <<self_verify, sk, msg, noise, sig, vpk, vmsg, vsig, vres>>

\* SecretKey::new(key).sign(m, n)
Sign ==
    /\ pc = "derived"
    /\ \E key \in SignKeys(kp), m \in Messages, n \in NoiseOpts :
         LET signature == sign(key, m, n)
         IN  /\ sk' = key
             /\ msg' = m
             /\ noise' = n
             /\ sig' = signature
             /\ pc' = IF signature = Panic THEN "sign_panicked" ELSE "signed"
    /\ UNCHANGED <<self_verify, seed, kp, vpk, vmsg, vsig, vres>>

\* PublicKey::new(pk).verify(m, Signature::new(sg)) after a signature of the
\* derived key
Verify ==
    /\ pc = "signed"
    /\ sk = kp.sk
    /\ \E in \in VerifyInputs :
         /\ vpk' = in.pk
         /\ vmsg' = in.m
         /\ vsig' = in.sg
         /\ vres' = verify(in.pk, in.m, in.sg)
    /\ pc' = "verified"
    /\ UNCHANGED <<self_verify, seed, kp, sk, msg, noise, sig>>

\* sk.public_key().verify(msg, sig) after a signature of a key built with
\* SecretKey::new
VerifyOwn ==
    /\ pc = "signed"
    /\ sk # kp.sk
    /\ vpk' = public_key(sk)
    /\ vmsg' = msg
    /\ vsig' = sig
    /\ vres' = verify(public_key(sk), msg, sig)
    /\ pc' = "verified"
    /\ UNCHANGED <<self_verify, seed, kp, sk, msg, noise, sig>>

Next == FromSeed \/ Sign \/ Verify \/ VerifyOwn

Spec == Init /\ [][Next]_vars

\* ------------------------------------------------------------ properties

Called == pc = "verified"

\* verify was called with the derived key, the signed message and the
\* signature that sign returned for them
Genuine == Called /\ sk = kp.sk /\ vpk = kp.pk /\ vmsg = msg /\ vsig = sig

ScalarOf(signature) == Slice(signature, 32, 64)

\* C1: verify returns NoncanonicalSignature for every signature whose S half
\* is at least the group order.
C1_NoncanonicalRejected ==
    Called /\ BigGe(ScalarOf(vsig), GroupOrder) => vres = NoncanonicalSignature

\* C2: a signature made by the secret key of a derived pair, for any message
\* and noise, verifies under the pair's public key.
C2_RoundTrip == Genuine => vres = Ok

C2_RoundTripWitness == Genuine /\ noise.some /\ Len(msg) > 0 /\ vres = Ok

WeakKey(pk) == pk = Zeros(32) \/ pk = One32

\* C3 as stated: under the all-zero key and under the encoding of the
\* neutral element verify returns WeakPublicKey whatever the signature is.
C3_WeakKeyAnySignature == Called /\ WeakKey(vpk) => vres = WeakPublicKey

\* C3, amended: under a weak key verify returns WeakPublicKey unless the S
\* half fails the test on S that verify makes first (S, little-endian, at
\* least the array L read little-endian); then it returns
\* NoncanonicalSignature.
C3_WeakKeyAfterScalarTest ==
    Called /\ WeakKey(vpk) =>
        vres = IF BigGe(ScalarOf(vsig), L) THEN NoncanonicalSignature ELSE WeakPublicKey

C3_WeakKeyWitness ==
    Called /\ vpk = Zeros(32) /\ ~BigGe(ScalarOf(vsig), L) /\ vres = WeakPublicKey

\* x and y differ in exactly one bit
OneBitApart(x, y) ==
    /\ Len(x) = Len(y)
    /\ \E i \in 1..Len(x) :
         /\ \A j \in 1..Len(x) : j # i => x[j] = y[j]
         /\ BitXor(x[i], y[i]) \in {1, 2, 4, 8, 16, 32, 64, 128}

\* C4: once (pk, m, sig) verifies for a derived key pair, verify fails with
\* SignatureMismatch for another message and for a signature one bit away,
\* and fails with SignatureMismatch, InvalidPublicKey or WeakPublicKey for a
\* key one bit away.
C4_ForgerySensitivity ==
    Called /\ sk = kp.sk /\ verify(kp.pk, msg, sig) = Ok =>
        /\ vpk = kp.pk /\ vsig = sig /\ vmsg # msg => vres = SignatureMismatch
        /\ vpk = kp.pk /\ vmsg = msg /\ OneBitApart(vsig, sig) => vres = SignatureMismatch
        /\ vmsg = msg /\ vsig = sig /\ OneBitApart(vpk, kp.pk) =>
               vres \in {SignatureMismatch, InvalidPublicKey, WeakPublicKey}

C4_ForgeryWitness ==
    /\ Called /\ sk = kp.sk /\ vpk = kp.pk
    /\ vsig = sig /\ vmsg # msg /\ vres = SignatureMismatch

\* C5: from_seed panics for the all-zero seed and for no other seed; for
\* every other seed it returns a pair of a 32-byte and a 64-byte key.
C5_DegenerateSeed ==
    pc # "start" =>
        /\ pc = "seed_panicked" <=> seed = Zeros(32)
        /\ pc # "seed_panicked" => Len(kp.pk) = 32 /\ Len(kp.sk) = 64

C5_DegenerateSeedWitness == pc = "seed_panicked" /\ seed = Zeros(32)

\* The checks of verify in the order (1) S below the group order, (2) key
\* not weak, (3) key decodes, (4) encode(h*A + S*B) = R
Classify(pk, message, signature) ==
    LET a == from_bytes_negate_vartime(pk)
        R == Slice(signature, 0, 32)
        h == sc_reduce(Hash(R \o pk \o message))
    IN  IF BigGe(ScalarOf(signature), GroupOrder) THEN NoncanonicalSignature
        ELSE IF WeakKey(pk) THEN WeakPublicKey
        ELSE IF ~a.some THEN InvalidPublicKey
        ELSE IF to_bytes(double_scalarmult_vartime(h, a.val, ScalarOf(signature))) # R
             THEN SignatureMismatch
        ELSE Ok

\* C7: verify returns the outcome of the first failing check in the order
\* S canonical, key not weak, key decodes, equation holds, and Ok when none
\* fails.
C7_FirstFailingCheck == Called => vres = Classify(vpk, vmsg, vsig)

\* low 3 bits of byte 0 cleared, bit 7 of byte 31 cleared, bit 6 of byte 31 set
Clamped(h) ==
    [i \in 1..Len(h) |->
        IF i = 1 THEN h[i] - (h[i] % 8)
        ELSE IF i = 32 THEN (h[i] % 64) + 64
        ELSE h[i]]

Derived == pc \notin {"start", "seed_panicked"}

\* C8: a derived pair has sk = seed || pk and pk = encode(c * B) for the
\* clamped c = Hash(seed)[0..32]; pk is sk.public_key(), and sign clamps the
\* same c out of sk[0..32].
C8_KeyLayout ==
    Derived =>
        /\ Slice(kp.sk, 0, 32) = seed
        /\ Slice(kp.sk, 32, 64) = kp.pk
        /\ kp.pk = to_bytes(ge_scalarmult_base(Slice(Clamped(Hash(seed)), 0, 32)))
        /\ kp.pk = public_key(kp.sk)
        /\ Slice(sign_az(kp.sk), 0, 32) = Slice(Clamped(Hash(seed)), 0, 32)

C8_KeyLayoutWitness == pc = "derived" /\ seed # Zeros(32) /\ Len(kp.sk) = 64

Returned == pc \in {"signed", "verified"}

SignedAz == Clamped(Hash(Slice(sk, 0, 32)))
SignedNonce ==
    sc_reduce(Hash(IF noise.some THEN noise.val \o SignedAz \o msg
                   ELSE Slice(SignedAz, 32, 64) \o msg))
SignedR == to_bytes(ge_scalarmult_base(SignedNonce))
SignedK == sc_reduce(Hash(SignedR \o Slice(sk, 32, 64) \o msg))
SignedS == MulAddMod(SignedK, Slice(SignedAz, 0, 32), SignedNonce)

\* C9: sign returns R || S with R = encode(r * B) and S = (k*a + r) mod L
\* for the az, r and k of the signing equation, so S is below the group
\* order.
C9_SigningEquation ==
    Returned =>
        /\ sig = SignedR \o SignedS
        /\ ~BigGe(ScalarOf(sig), GroupOrder)

C9_SigningWitness == pc = "signed" /\ noise.some /\ sk # kp.sk /\ Len(sig) = 64

\* C10: with self-verify, sign returns only a signature that verifies under
\* sk[32..64] and panics otherwise, never for a derived key; without it
\* sign always returns.
C10_SelfVerify ==
    /\ self_verify /\ Returned => verify(public_key(sk), msg, sig) = Ok
    /\ pc = "sign_panicked" =>
           /\ self_verify
           /\ sk # kp.sk
           /\ verify(public_key(sk), msg, sign_signature(sk, msg, noise)) # Ok
    /\ ~self_verify => pc # "sign_panicked"

C10_SelfVerifyWitness == pc = "sign_panicked" /\ self_verify /\ sig = Panic

====
